---- MODULE Spec2Model ----
(***************************************************************************)
(* Model of src/script.js: class SpeechRecognitionSystem, a browser page   *)
(* controller wiring a host speech recognizer, a remote translation        *)
(* service, a host speech synthesizer and a file "transcription" stub.     *)
(*                                                                         *)
(* Strings are sequences of tokens, so that concatenation (+=, template    *)
(* literals) is \o and "prefix", "substring" are what they are on strings. *)
(* Every step of the model is one turn of the page's event loop: a host    *)
(* event handler run up to its first await, or the continuation of an      *)
(* async function after an awaited promise settles.                        *)
(***************************************************************************)
EXTENDS Integers, Sequences, FiniteSets, TLC

VARIABLES
    isSupported,        \* this.isSupported
    isRecording,        \* this.isRecording
    transcript,         \* this.transcript
    uploadedAudio,      \* this.uploadedAudio
    lastTranslation,    \* this.lastTranslation
    statusText,         \* statusElement.textContent
    statusRecording,    \* statusElement.classList contains 'recording'
    startDisabled,      \* startButton.disabled
    stopDisabled,       \* stopButton.disabled
    processDisabled,    \* processAudioButton.disabled
    speakDisabled,      \* speakButton.disabled
    fileInfo,           \* fileInfo.textContent
    transcriptText,     \* transcriptElement.textContent
    languageSelect,     \* languageSelect.value
    translationLanguage,\* translationLanguage.value
    recognitionLang,    \* recognition.lang
    recActive,          \* host recognizer: started and not yet stopped
    recognizerCalls,    \* host recognizer: calls received from the latest request
    synthQueue,         \* host synthesizer: utterances handed in, head is being spoken
    handlers,           \* runs of recognition.onresult, in delivery order
    fileRuns,           \* runs of processAudioFile / reader.onload, in request order
    speakButtonText     \* speakButton.textContent

vars == <<isSupported, isRecording, transcript, uploadedAudio, lastTranslation,
          statusText, statusRecording, startDisabled, stopDisabled,
          processDisabled, speakDisabled, fileInfo, transcriptText,
          languageSelect, translationLanguage, recognitionLang, recActive,
          recognizerCalls, synthQueue, handlers, fileRuns, speakButtonText>>

\* ------------------------------------------------------------------ bounds
MaxRuns == 1        \* Spec: result handlers that await plus file runs
MaxEvents == 2      \* SpecResults: result handlers that await a translation
MaxFileRuns == 1    \* SpecFiles: process requests that start a file run
MaxNameLen == 4     \* SpecStub: length of the filenames given to the stub
MaxLiveRuns == 1    \* SpecLive: result handlers that await plus file runs

\* ------------------------------------------------------------- the strings
\* event.target.files[0] when nothing is selected; this.uploadedAudio = null
NoFile == [exists |-> FALSE, name |-> <<>>, type |-> <<>>]

IsPrefix(s, t) == Len(s) <= Len(t) /\ SubSeq(t, 1, Len(s)) = s

\* String.prototype.includes
Includes(s, sub) ==
    \E k \in 0..(Len(s) - Len(sub)) : SubSeq(s, k + 1, k + Len(sub)) = sub

LowerChar(c) ==
    CASE c = "E" -> "e"
      [] c = "H" -> "h"
      [] c = "I" -> "i"
      [] c = "N" -> "n"
      [] OTHER -> c

\* String.prototype.toLowerCase
ToLowerCase(s) == [k \in 1..Len(s) |-> LowerChar(s[k])]

\* this.messages
messages == [
    START_PROMPT     |-> "START_PROMPT",
    RECORDING        |-> "RECORDING",
    STOPPED          |-> "STOPPED",
    ERROR_START      |-> "ERROR_START",
    BROWSER_ERROR    |-> "BROWSER_ERROR",
    NO_SPEECH        |-> "NO_SPEECH",
    NETWORK_ERROR    |-> "NETWORK_ERROR",
    PERMISSION_ERROR |-> "PERMISSION_ERROR",
    PROCESSING_AUDIO |-> "PROCESSING_AUDIO",
    AUDIO_PROCESSED  |-> "AUDIO_PROCESSED",
    AUDIO_ERROR      |-> "AUDIO_ERROR" ]

\* Object.keys(this.languageMapping), in insertion order
languageKeys ==
    <<"en-US", "hi-IN", "te-IN", "ta-IN", "kn-IN", "ml-IN", "mr-IN", "bn-IN", "gu-IN">>

\* this.languageMapping; a code is the sequence of its two letters
languageMapping == [
    k \in {languageKeys[n] : n \in 1..Len(languageKeys)} |->
        CASE k = "en-US" -> <<"e", "n">>
          [] k = "hi-IN" -> <<"h", "i">>
          [] k = "te-IN" -> <<"t", "e">>
          [] k = "ta-IN" -> <<"t", "a">>
          [] k = "kn-IN" -> <<"k", "n">>
          [] k = "ml-IN" -> <<"m", "l">>
          [] k = "mr-IN" -> <<"m", "r">>
          [] k = "bn-IN" -> <<"b", "n">>
          [] k = "gu-IN" -> <<"g", "u">> ]

\* a bug: `|| 'en'` where the code has `|| 'auto'`
SourceLangDefaultsToEnglish(selection) ==
    IF selection \in DOMAIN languageMapping THEN languageMapping[selection] ELSE <<"e", "n">>

\* this.languageMapping[this.languageSelect.value] || 'auto'   (translateToEnglish)
SourceLang(selection) ==
    IF selection \in DOMAIN languageMapping THEN languageMapping[selection] ELSE <<"auto">>

\* the values of the <option>s of #languageSelect: the nine mapped locales and
\* two the mapping does not hold
MappedLocales == DOMAIN languageMapping
UnmappedLocales == {"pa-IN", "ur-IN"}
AllLocales == MappedLocales \cup UnmappedLocales

\* the values of the <option>s of #translationLanguage, and options[i].text
TargetLanguages == {"en", "hi"}
TargetLangName(value) ==
    CASE value = "en" -> "English"
      [] value = "hi" -> "Hindi"
      [] OTHER -> value

\* ------------------------------------------------- the translation service
NoRequest == [text |-> <<>>, source |-> <<>>, target |-> "none"]

\* the request translateToEnglish hands to fetch: q and langpair (source|target)
TranslationRequest(text) ==
    [text |-> text, source |-> SourceLang(languageSelect), target |-> translationLanguage]

\* what the remote service can answer to a request: the fetch fails, the body
\* does not parse, or it is JSON with responseStatus and responseData.translatedText
ServiceTranslation(request) == <<request.target>> \o request.text
NoResponse == [kind |-> "none", responseStatus |-> 0, translatedText |-> <<>>]
Responses(request) ==
    { [kind |-> "network", responseStatus |-> 0, translatedText |-> <<>>],
      [kind |-> "parse", responseStatus |-> 0, translatedText |-> <<>>],
      [kind |-> "json", responseStatus |-> 200, translatedText |-> ServiceTranslation(request)],
      [kind |-> "json", responseStatus |-> 200, translatedText |-> <<>>],
      [kind |-> "json", responseStatus |-> 403, translatedText |-> <<"QUOTA">>] }

\* a bug: any body that parses is taken for a translation
TranslationResultAnyStatus(text, response) ==
    IF response.kind = "json" THEN response.translatedText ELSE text

\* the value translateToEnglish(text) resolves to, given the service's answer
TranslationResult(text, response) ==
    IF response.kind = "json" /\ response.responseStatus = 200
    THEN response.translatedText
    ELSE text

\* ------------------------------------------------------------ the transcript
\* the block updateTranscript appends: `Original: ${interim}\n${name} Translation: ${final}\n\n`
TranscriptBlock(finalTranscript, interimTranscript, targetLangName) ==
    <<"Original: ">> \o interimTranscript \o <<"\n", targetLangName, " Translation: ">>
        \o finalTranscript \o <<"\n\n">>

\* a bug: `this.transcript = ...` where the code has `this.transcript += ...`
NextTranscriptOverwrites(finalTranscript, interimTranscript) ==
    IF finalTranscript # <<>>
    THEN TranscriptBlock(finalTranscript, interimTranscript,
                         TargetLangName(translationLanguage))
    ELSE transcript

\* this.transcript after updateTranscript(finalTranscript, interimTranscript)
NextTranscript(finalTranscript, interimTranscript) ==
    IF finalTranscript # <<>>
    THEN transcript \o TranscriptBlock(finalTranscript, interimTranscript,
                                       TargetLangName(translationLanguage))
    ELSE transcript

\* a bug: `this.lastTranslation = finalTranscript` stands before the `if`
UpdateTranscriptSetsLastAlways(finalTranscript, interimTranscript) ==
    /\ transcript' = NextTranscript(finalTranscript, interimTranscript)
    /\ lastTranslation' = finalTranscript
    /\ speakDisabled' = IF finalTranscript # <<>> THEN FALSE ELSE speakDisabled
    /\ transcriptText' = transcript' \o
            (IF interimTranscript # <<>> THEN <<"Speaking: ">> \o interimTranscript ELSE <<>>)

\* a bug: the display is appended to (`textContent +=`), not replaced
UpdateTranscriptKeepsInterim(finalTranscript, interimTranscript) ==
    /\ transcript' = NextTranscript(finalTranscript, interimTranscript)
    /\ lastTranslation' = IF finalTranscript # <<>> THEN finalTranscript ELSE lastTranslation
    /\ speakDisabled' = IF finalTranscript # <<>> THEN FALSE ELSE speakDisabled
    /\ transcriptText' = transcriptText \o SubSeq(transcript', Len(transcript) + 1, Len(transcript')) \o
            (IF interimTranscript # <<>> THEN <<"Speaking: ">> \o interimTranscript ELSE <<>>)

\* updateTranscript(finalTranscript, interimTranscript)
UpdateTranscript(finalTranscript, interimTranscript) ==
    /\ transcript' = NextTranscript(finalTranscript, interimTranscript)
    /\ lastTranslation' = IF finalTranscript # <<>> THEN finalTranscript ELSE lastTranslation
    /\ speakDisabled' = IF finalTranscript # <<>> THEN FALSE ELSE speakDisabled
    /\ transcriptText' = transcript' \o
            (IF interimTranscript # <<>> THEN <<"Speaking: ">> \o interimTranscript ELSE <<>>)

TranscriptVars == <<transcript, lastTranslation, speakDisabled, transcriptText>>
RecordingVars == <<isRecording, startDisabled, stopDisabled, statusRecording,
                   recActive, recognizerCalls>>
SelectVars == <<languageSelect, translationLanguage, recognitionLang, speakButtonText>>
FileVars == <<uploadedAudio, fileInfo, processDisabled>>

\* a promise continuation (microtask) is pending: it runs before any host event
Returned(runs) == \E k \in 1..Len(runs) : runs[k].pc = "returned"
MicrotaskPending == Returned(handlers) \/ Returned(fileRuns)

\* --------------------------------------------------- recognition.onresult
Fragment(text, final) == [transcript |-> text, isFinal |-> final]

DoneIds(runs) == {k \in 1..Len(runs) : runs[k].pc = "done"}

\* a run of the onresult handler on event.results[event.resultIndex ..]
NewHandler(results) ==
    [pc |-> "running", results |-> results, i |-> 1,
     interimTranscript |-> <<>>, finalTranscript |-> <<>>,
     request |-> NoRequest, response |-> NoResponse, ret |-> <<>>,
     after |-> DoneIds(handlers), block |-> <<>>, endPos |-> 0, recording |-> TRUE]

\* the for loop, from fragment h.i up to the next await or to its end
RECURSIVE RunLoop(_)
RunLoop(h) ==
    IF h.i > Len(h.results)
    THEN [h EXCEPT !.pc = "update"]
    ELSE IF h.results[h.i].isFinal
         THEN [h EXCEPT !.pc = "await",
                        !.request = TranslationRequest(h.results[h.i].transcript)]
         ELSE RunLoop([h EXCEPT !.interimTranscript = @ \o h.results[h.i].transcript,
                                !.i = @ + 1])

\* the handler's record once it has returned: the block it appended, where the
\* block ends in the transcript, and this.isRecording at that moment
Finished(h) ==
    [h EXCEPT !.pc = "done", !.results = <<>>, !.i = 0,
              !.interimTranscript = <<>>, !.finalTranscript = <<>>,
              !.block = IF h.finalTranscript # <<>>
                        THEN TranscriptBlock(h.finalTranscript, h.interimTranscript,
                                             TargetLangName(translationLanguage))
                        ELSE <<>>,
              !.endPos = IF h.finalTranscript # <<>>
                         THEN Len(NextTranscript(h.finalTranscript, h.interimTranscript))
                         ELSE 0,
              !.recording = isRecording]

\* the recognizer delivers a result event: the handler runs to its first await,
\* or, with no final fragment, to updateTranscript and its end; `room` says
\* whether the model can hold one more awaiting handler
OnResult(results, room) ==
    /\ isSupported /\ recActive /\ ~MicrotaskPending
    /\ LET h == RunLoop(NewHandler(results)) IN
       IF h.pc = "update"
       THEN /\ UpdateTranscript(h.finalTranscript, h.interimTranscript)
            /\ UNCHANGED handlers
       ELSE /\ room
            /\ handlers' = Append(handlers, h)
            /\ UNCHANGED TranscriptVars
    /\ UNCHANGED <<isSupported, RecordingVars, SelectVars, FileVars, statusText,
                   synthQueue, fileRuns>>

\* the service answers the request of handler k: translateToEnglish returns
ResolveTranslation(k) ==
    /\ k \in 1..Len(handlers) /\ handlers[k].pc = "await"
    /\ ~MicrotaskPending
    /\ \E response \in Responses(handlers[k].request) :
         handlers' = [handlers EXCEPT
            ![k].pc = "returned",
            ![k].response = response,
            ![k].ret = TranslationResult(handlers[k].request.text, response),
            ![k].request = NoRequest]
    /\ UNCHANGED <<isSupported, RecordingVars, SelectVars, FileVars, statusText,
                   synthQueue, fileRuns, TranscriptVars>>

\* a bug: `finalTranscript = translatedText` where the code has `+=`
ResumeHandlerDropsEarlier(k) ==
    /\ k \in 1..Len(handlers) /\ handlers[k].pc = "returned"
    /\ LET h == RunLoop([handlers[k] EXCEPT !.finalTranscript = handlers[k].ret,
                                            !.ret = <<>>, !.response = NoResponse,
                                            !.i = @ + 1]) IN
       IF h.pc = "update"
       THEN /\ UpdateTranscript(h.finalTranscript, h.interimTranscript)
            /\ handlers' = [handlers EXCEPT ![k] = Finished(h)]
       ELSE /\ handlers' = [handlers EXCEPT ![k] = h]
            /\ UNCHANGED TranscriptVars
    /\ UNCHANGED <<isSupported, RecordingVars, SelectVars, FileVars, statusText,
                   synthQueue, fileRuns>>

\* handler k resumes after `await this.translateToEnglish(transcript)`, and runs
\* to its next await or to updateTranscript and its end
ResumeHandler(k) ==
    /\ k \in 1..Len(handlers) /\ handlers[k].pc = "returned"
    /\ LET h == RunLoop([handlers[k] EXCEPT !.finalTranscript = @ \o handlers[k].ret,
                                            !.ret = <<>>, !.response = NoResponse,
                                            !.i = @ + 1]) IN
       IF h.pc = "update"
       THEN /\ UpdateTranscript(h.finalTranscript, h.interimTranscript)
            /\ handlers' = [handlers EXCEPT ![k] = Finished(h)]
       ELSE /\ handlers' = [handlers EXCEPT ![k] = h]
            /\ UNCHANGED TranscriptVars
    /\ UNCHANGED <<isSupported, RecordingVars, SelectVars, FileVars, statusText,
                   synthQueue, fileRuns>>

\* ------------------------------------------------------ recording controls
\* a call the host recognizer receives, and whether it threw
RecognizerCall(method, threw) == [method |-> method, threw |-> threw]

\* a bug: the isSupported check is missing, so that the try block fails on the
\* recognizer that was never created and the catch block reports a start error
StartUnsupportedTries ==
    /\ statusText' = messages.ERROR_START
    /\ UNCHANGED <<RecordingVars, recognitionLang>>

\* startRecording() without the recognition capability
StartUnsupported ==
    /\ statusText' = messages.BROWSER_ERROR
    /\ UNCHANGED <<RecordingVars, recognitionLang>>

\* a bug: the catch block also takes the recording flag back
StartCatchClearsFlag ==
    /\ statusText' = messages.ERROR_START
    /\ isRecording' = FALSE
    /\ UNCHANGED <<startDisabled, stopDisabled, statusRecording, recActive>>

\* the catch block of startRecording()
StartCatch ==
    /\ statusText' = messages.ERROR_START
    /\ UNCHANGED <<isRecording, startDisabled, stopDisabled, statusRecording, recActive>>

\* a bug: a new recording starts from an empty transcript
StartRecordingClearsTranscript ==
    /\ transcript' = <<>>
    /\ transcriptText' = <<>>
    /\ UNCHANGED <<isSupported, languageSelect, translationLanguage, speakButtonText,
                   FileVars, lastTranslation, speakDisabled, synthQueue, handlers,
                   fileRuns>>

\* what startRecording() leaves as it is
StartRecordingFrame ==
    UNCHANGED <<isSupported, languageSelect, translationLanguage, speakButtonText,
                FileVars, TranscriptVars, synthQueue, handlers, fileRuns>>

\* startRecording()
StartRecording ==
    /\ ~MicrotaskPending
    /\ IF ~isSupported
       THEN StartUnsupported
       ELSE /\ recognitionLang' = languageSelect
            \* recognition.start() throws on a recognizer that is already started,
            \* and may throw otherwise
            /\ \E throws \in (IF recActive THEN {TRUE} ELSE BOOLEAN) :
                 /\ recognizerCalls' = <<RecognizerCall("start", throws)>>
                 /\ IF throws
                    THEN StartCatch
                    ELSE /\ recActive' = TRUE
                         /\ isRecording' = TRUE
                         /\ startDisabled' = TRUE
                         /\ stopDisabled' = FALSE
                         /\ statusText' = messages.RECORDING
                         /\ statusRecording' = TRUE
    /\ StartRecordingFrame

\* a bug: the catch block of stopRecording() reports as startRecording()'s does
StopRecordingFromReports(status) ==
    IF ~isSupported
    THEN /\ statusText' = status
         /\ UNCHANGED RecordingVars
    ELSE \E throws \in BOOLEAN :
           /\ recognizerCalls' = <<RecognizerCall("stop", throws)>>
           /\ IF throws
              THEN /\ statusText' = messages.ERROR_START
                   /\ UNCHANGED <<isRecording, startDisabled, stopDisabled,
                                  statusRecording, recActive>>
              ELSE /\ recActive' = FALSE
                   /\ isRecording' = FALSE
                   /\ startDisabled' = FALSE
                   /\ stopDisabled' = TRUE
                   /\ statusText' = messages.STOPPED
                   /\ statusRecording' = FALSE

\* the body of stopRecording(), entered with `status` in the status field
StopRecordingFrom(status) ==
    IF ~isSupported
    THEN /\ statusText' = status
         /\ UNCHANGED RecordingVars
    ELSE \E throws \in BOOLEAN :
           /\ recognizerCalls' = <<RecognizerCall("stop", throws)>>
           /\ IF throws
              THEN /\ statusText' = status
                   /\ UNCHANGED <<isRecording, startDisabled, stopDisabled,
                                  statusRecording, recActive>>
              ELSE /\ recActive' = FALSE
                   /\ isRecording' = FALSE
                   /\ startDisabled' = FALSE
                   /\ stopDisabled' = TRUE
                   /\ statusText' = messages.STOPPED
                   /\ statusRecording' = FALSE

\* a bug: stopping also abandons the handlers that await a translation
StopRecordingCancels ==
    /\ ~MicrotaskPending
    /\ StopRecordingFrom(statusText)
    /\ handlers' = [k \in 1..Len(handlers) |->
                        IF handlers[k].pc = "await"
                        THEN [handlers[k] EXCEPT !.pc = "done", !.request = NoRequest,
                                                 !.results = <<>>, !.i = 0,
                                                 !.interimTranscript = <<>>,
                                                 !.recording = FALSE]
                        ELSE handlers[k]]
    /\ UNCHANGED <<isSupported, SelectVars, FileVars, TranscriptVars, synthQueue,
                   fileRuns>>

\* stopRecording()
StopRecording ==
    /\ ~MicrotaskPending
    /\ StopRecordingFrom(statusText)
    /\ UNCHANGED <<isSupported, SelectVars, FileVars, TranscriptVars, synthQueue,
                   handlers, fileRuns>>

\* the message recognition.onerror shows for event.error
ErrorMessage(error) ==
    IF error = "network" THEN messages.NETWORK_ERROR
    ELSE IF error = "not-allowed" THEN messages.PERMISSION_ERROR
    ELSE messages.ERROR_START

ErrorCodes == {"network", "not-allowed", "no-speech"}

\* recognition.onerror
OnError(error) ==
    /\ isSupported /\ recActive /\ ~MicrotaskPending
    /\ StopRecordingFrom(ErrorMessage(error))
    /\ UNCHANGED <<isSupported, SelectVars, FileVars, TranscriptVars, synthQueue,
                   handlers, fileRuns>>

\* recognition.onnomatch
OnNoMatch ==
    /\ isSupported /\ recActive /\ ~MicrotaskPending
    /\ statusText' = messages.NO_SPEECH
    /\ UNCHANGED <<isSupported, RecordingVars, SelectVars, FileVars, TranscriptVars,
                   synthQueue, handlers, fileRuns>>

\* languageSelect 'change' listener
ChangeLanguage(value) ==
    /\ ~MicrotaskPending
    /\ languageSelect' = value
    /\ recognitionLang' = IF isSupported THEN value ELSE recognitionLang
    /\ UNCHANGED <<isSupported, RecordingVars, translationLanguage, speakButtonText,
                   FileVars, TranscriptVars, statusText, synthQueue, handlers, fileRuns>>

\* translationLanguage 'change' listener
ChangeTranslationLanguage(value) ==
    /\ ~MicrotaskPending
    /\ translationLanguage' = value
    /\ speakButtonText' = <<"Speak ", TargetLangName(value)>>
    /\ UNCHANGED <<isSupported, RecordingVars, languageSelect, recognitionLang,
                   FileVars, TranscriptVars, statusText, synthQueue, handlers, fileRuns>>

\* ------------------------------------------------------------ synthesis
\* the utterance speakTranslation builds
Utterance ==
    [text |-> lastTranslation,
     lang |-> IF translationLanguage = "en" THEN "en-US" ELSE translationLanguage,
     rate |-> "0.9", pitch |-> "1"]

\* speechSynthesis.speaking
Speaking == synthQueue # <<>>

\* a bug: the check of speechSynthesis.speaking is missing
MaySpeakWhileSpeaking == lastTranslation # <<>>

\* the condition under which speakTranslation hands an utterance over
MaySpeak == lastTranslation # <<>> /\ ~Speaking

\* speakTranslation()
SpeakTranslation ==
    /\ ~MicrotaskPending
    /\ synthQueue' = IF MaySpeak
                     THEN Append(synthQueue, Utterance)
                     ELSE synthQueue
    /\ UNCHANGED <<isSupported, RecordingVars, SelectVars, FileVars, TranscriptVars,
                   statusText, handlers, fileRuns>>

\* the synthesizer finishes the utterance it is speaking
SpeechEnds ==
    /\ Speaking /\ ~MicrotaskPending
    /\ synthQueue' = Tail(synthQueue)
    /\ UNCHANGED <<isSupported, RecordingVars, SelectVars, FileVars, TranscriptVars,
                   statusText, handlers, fileRuns>>

\* ------------------------------------------------------------- file upload
\* file.type.startsWith('audio/')
IsAudio(file) == IsPrefix(<<"audio/">>, file.type)

\* a bug: the branches that reject a selection forget `this.uploadedAudio = null`
HandleFileSelectKeepsUpload(file) ==
    /\ ~MicrotaskPending
    /\ IF file.exists /\ IsAudio(file)
       THEN /\ uploadedAudio' = file
            /\ fileInfo' = <<"Selected: ">> \o file.name
            /\ processDisabled' = FALSE
       ELSE /\ fileInfo' = IF file.exists THEN <<"Please select an audio file">>
                                          ELSE <<"No file selected">>
            /\ processDisabled' = TRUE
            /\ UNCHANGED uploadedAudio
    /\ UNCHANGED <<isSupported, RecordingVars, SelectVars, TranscriptVars, statusText,
                   synthQueue, handlers, fileRuns>>

\* handleFileSelect(event), with file = event.target.files[0]
HandleFileSelect(file) ==
    /\ ~MicrotaskPending
    /\ IF file.exists
       THEN IF IsAudio(file)
            THEN /\ uploadedAudio' = file
                 /\ fileInfo' = <<"Selected: ">> \o file.name
                 /\ processDisabled' = FALSE
            ELSE /\ fileInfo' = <<"Please select an audio file">>
                 /\ processDisabled' = TRUE
                 /\ uploadedAudio' = NoFile
       ELSE /\ fileInfo' = <<"No file selected">>
            /\ processDisabled' = TRUE
            /\ uploadedAudio' = NoFile
    /\ UNCHANGED <<isSupported, RecordingVars, SelectVars, TranscriptVars, statusText,
                   synthQueue, handlers, fileRuns>>

\* sampleTexts
sampleTexts == [
    code \in {<<"h", "i">>, <<"t", "e">>, <<"t", "a">>, <<"k", "n">>, <<"m", "l">>,
              <<"m", "r">>, <<"b", "n">>, <<"g", "u">>, <<"default">>} |->
        <<"sample:">> \o code ]

\* a bug: the last key whose code occurs in the filename is taken, not the first
DetectedLangLast(name) ==
    LET hits == {n \in 1..Len(languageKeys) :
                    Includes(ToLowerCase(name), languageMapping[languageKeys[n]])}
    IN IF hits = {} THEN 0 ELSE CHOOSE n \in hits : \A m \in hits : n >= m

\* Object.keys(this.languageMapping).find(key => filename.toLowerCase().includes(...)):
\* the index of the first key whose code occurs in the filename, 0 if none does
DetectedLang(name) ==
    LET hits == {n \in 1..Len(languageKeys) :
                    Includes(ToLowerCase(name), languageMapping[languageKeys[n]])}
    IN IF hits = {} THEN 0 ELSE CHOOSE n \in hits : \A m \in hits : n <= m

\* the string simulateAudioTranscription(filename) resolves to
SimulateAudioTranscription(name) ==
    LET detectedLang == DetectedLang(name)
        sourceLang == IF detectedLang # 0
                      THEN languageMapping[languageKeys[detectedLang]]
                      ELSE <<"default">>
    IN IF sourceLang \in DOMAIN sampleTexts
       THEN sampleTexts[sourceLang]
       ELSE sampleTexts[<<"default">>]

\* a run of reader.onload, started by processAudioFile on `file`
NewFileRun(file) ==
    [pc |-> "reading", file |-> file, filename |-> <<>>, transcript |-> <<>>,
     request |-> NoRequest, response |-> NoResponse, ret |-> <<>>, outcome |-> "none"]

\* the run's record once reader.onload (or reader.onerror) has returned
FileRunDone(run, outcome) ==
    [pc |-> "done", file |-> NoFile, filename |-> run.filename, transcript |-> run.transcript,
     request |-> NoRequest, response |-> NoResponse, ret |-> <<>>, outcome |-> outcome]

\* processAudioFile(); `room` says whether the model can hold one more file run
ProcessAudioFile(room) ==
    /\ ~MicrotaskPending
    /\ IF uploadedAudio = NoFile
       THEN UNCHANGED <<statusText, fileRuns>>
       ELSE /\ room
            /\ statusText' = messages.PROCESSING_AUDIO
            /\ fileRuns' = Append(fileRuns, NewFileRun(uploadedAudio))
    /\ UNCHANGED <<isSupported, RecordingVars, SelectVars, FileVars, TranscriptVars,
                   synthQueue, handlers>>

\* reader.onload is called and awaits audioContext.decodeAudioData
ReaderOnLoad(k) ==
    /\ k \in 1..Len(fileRuns) /\ fileRuns[k].pc = "reading" /\ ~MicrotaskPending
    /\ fileRuns' = [fileRuns EXCEPT ![k].pc = "decoding"]
    /\ UNCHANGED <<isSupported, RecordingVars, SelectVars, FileVars, TranscriptVars,
                   statusText, synthQueue, handlers>>

\* reader.onerror
ReaderOnError(k) ==
    /\ k \in 1..Len(fileRuns) /\ fileRuns[k].pc = "reading" /\ ~MicrotaskPending
    /\ statusText' = messages.AUDIO_ERROR
    /\ fileRuns' = [fileRuns EXCEPT ![k] = FileRunDone(@, "error")]
    /\ UNCHANGED <<isSupported, RecordingVars, SelectVars, FileVars, TranscriptVars,
                   synthQueue, handlers>>

\* decodeAudioData settles; on success the run calls
\* simulateAudioTranscription(this.uploadedAudio.name), which starts its timer
DecodeSettles(k) ==
    /\ k \in 1..Len(fileRuns) /\ fileRuns[k].pc = "decoding" /\ ~MicrotaskPending
    /\ \E decoded \in BOOLEAN :
         IF decoded /\ uploadedAudio # NoFile
         THEN /\ fileRuns' = [fileRuns EXCEPT ![k].pc = "timer",
                                              ![k].filename = uploadedAudio.name]
              /\ UNCHANGED statusText
         ELSE \* decode error, or TypeError reading .name of null: the catch block
              /\ statusText' = messages.AUDIO_ERROR
              /\ fileRuns' = [fileRuns EXCEPT ![k] = FileRunDone(@, "error")]
    /\ UNCHANGED <<isSupported, RecordingVars, SelectVars, FileVars, TranscriptVars,
                   synthQueue, handlers>>

\* the stub's timer fires: it returns the sample and the run calls translateToEnglish
TimerFires(k) ==
    /\ k \in 1..Len(fileRuns) /\ fileRuns[k].pc = "timer" /\ ~MicrotaskPending
    /\ LET sample == SimulateAudioTranscription(fileRuns[k].filename) IN
       fileRuns' = [fileRuns EXCEPT ![k].pc = "await",
                                    ![k].transcript = sample,
                                    ![k].request = TranslationRequest(sample)]
    /\ UNCHANGED <<isSupported, RecordingVars, SelectVars, FileVars, TranscriptVars,
                   statusText, synthQueue, handlers>>

\* the service answers the request of file run k: translateToEnglish returns
ResolveFileTranslation(k) ==
    /\ k \in 1..Len(fileRuns) /\ fileRuns[k].pc = "await" /\ ~MicrotaskPending
    /\ \E response \in Responses(fileRuns[k].request) :
         fileRuns' = [fileRuns EXCEPT
            ![k].pc = "returned",
            ![k].response = response,
            ![k].ret = TranslationResult(fileRuns[k].request.text, response),
            ![k].request = NoRequest]
    /\ UNCHANGED <<isSupported, RecordingVars, SelectVars, FileVars, TranscriptVars,
                   statusText, synthQueue, handlers>>

\* file run k resumes after `await this.translateToEnglish(transcript)`
ResumeFileRun(k) ==
    /\ k \in 1..Len(fileRuns) /\ fileRuns[k].pc = "returned"
    /\ UpdateTranscript(fileRuns[k].ret, fileRuns[k].transcript)
    /\ statusText' = messages.AUDIO_PROCESSED
    /\ fileRuns' = [fileRuns EXCEPT ![k] = FileRunDone(@, "processed")]
    /\ UNCHANGED <<isSupported, RecordingVars, SelectVars, FileVars, synthQueue, handlers>>

\* ---------------------------------------------------------- specifications
\* the text the page's markup gives the status line
MarkupStatus == "(markup)"

\* what the page's markup decides: the disabled attributes of the four buttons
Markups == [start : BOOLEAN, stop : BOOLEAN, process : BOOLEAN, speak : BOOLEAN]
UsualMarkup == [start |-> FALSE, stop |-> TRUE, process |-> TRUE, speak |-> TRUE]

\* the state the constructor leaves, for a page whose selectors offer `locales`
\* and whose markup is one of `markups`
Construct(locales, markups) ==
    /\ isSupported \in BOOLEAN
    /\ isRecording = FALSE
    /\ transcript = <<>>
    /\ uploadedAudio = NoFile
    /\ lastTranslation = <<>>
    /\ languageSelect \in locales
    /\ translationLanguage \in TargetLanguages
    /\ speakButtonText = <<"Speak ", TargetLangName(translationLanguage)>>
    /\ statusText = IF isSupported THEN MarkupStatus ELSE messages.BROWSER_ERROR
    /\ statusRecording = FALSE
    /\ \E markup \in markups :
         /\ startDisabled = (IF isSupported THEN markup.start ELSE TRUE)
         /\ stopDisabled = (IF isSupported THEN markup.stop ELSE TRUE)
         /\ processDisabled = markup.process
         /\ speakDisabled = markup.speak
    /\ fileInfo = <<>>
    /\ transcriptText = <<>>
    /\ recognitionLang = ""
    /\ recActive = FALSE
    /\ recognizerCalls = <<>>
    /\ synthQueue = <<>>
    /\ handlers = <<>>
    /\ fileRuns = <<>>

\* the inputs: selector values, result events, files
Locales == {"hi-IN", "pa-IN"}
InterimEvent == <<Fragment(<<"b">>, FALSE)>>
FinalEvent == <<Fragment(<<"a">>, TRUE)>>
MixedEvent == <<Fragment(<<"b">>, FALSE), Fragment(<<"a">>, TRUE)>>
TwoFinalsEvent == <<Fragment(<<"a">>, TRUE), Fragment(<<"b">>, TRUE)>>
AudioFile == [exists |-> TRUE, name |-> <<"H", "i">>, type |-> <<"audio/", "mpeg">>]
TextFile == [exists |-> TRUE, name |-> <<"x">>, type |-> <<"text/", "plain">>]
Files == {AudioFile, TextFile, NoFile}

Controls ==
    \/ StartRecording
    \/ StopRecording
    \/ \E error \in ErrorCodes : OnError(error)
    \/ OnNoMatch

ResultSteps ==
    \/ \E k \in 1..Len(handlers) : ResolveTranslation(k)
    \/ \E k \in 1..Len(handlers) : ResumeHandler(k)

FileSteps ==
    \/ \E k \in 1..Len(fileRuns) : ReaderOnLoad(k)
    \/ \E k \in 1..Len(fileRuns) : ReaderOnError(k)
    \/ \E k \in 1..Len(fileRuns) : DecodeSettles(k)
    \/ \E k \in 1..Len(fileRuns) : TimerFires(k)
    \/ \E k \in 1..Len(fileRuns) : ResolveFileTranslation(k)
    \/ \E k \in 1..Len(fileRuns) : ResumeFileRun(k)

\* Spec: the whole page, every handler
Init == Construct(Locales, {UsualMarkup})

RoomForRun == Len(handlers) + Len(fileRuns) < MaxRuns

Next ==
    \/ Controls
    \/ \E results \in {InterimEvent, MixedEvent} : OnResult(results, RoomForRun)
    \/ ResultSteps
    \/ \E value \in Locales : ChangeLanguage(value)
    \/ \E value \in TargetLanguages : ChangeTranslationLanguage(value)
    \/ SpeakTranslation
    \/ SpeechEnds
    \/ \E file \in Files : HandleFileSelect(file)
    \/ ProcessAudioFile(RoomForRun)
    \/ FileSteps

Spec == Init /\ [][Next]_vars

\* SpecResults: recording, result events and their translations
NextResults ==
    \/ StartRecording
    \/ \E results \in {InterimEvent, FinalEvent, MixedEvent} :
         OnResult(results, Len(handlers) < MaxEvents)
    \/ ResultSteps
    \/ \E value \in TargetLanguages : ChangeTranslationLanguage(value)

SpecResults == Init /\ [][NextResults]_vars

\* SpecControls: the recording controls and the recognizer's events
NextControls ==
    \/ Controls
    \/ \E value \in AllLocales : ChangeLanguage(value)

SpecControls == Construct(AllLocales, Markups) /\ [][NextControls]_vars

\* SpecFiles: file selection and file processing
NextFiles ==
    \/ \E file \in Files : HandleFileSelect(file)
    \/ ProcessAudioFile(Len(fileRuns) < MaxFileRuns)
    \/ FileSteps
    \/ \E value \in TargetLanguages : ChangeTranslationLanguage(value)

SpecFiles == Construct(Locales, Markups) /\ [][NextFiles]_vars

\* SpecLang: every selection of the two selectors, and the requests issued under it
NextLang ==
    \/ StartRecording
    \/ \E value \in AllLocales : ChangeLanguage(value)
    \/ \E value \in TargetLanguages : ChangeTranslationLanguage(value)
    \/ OnResult(FinalEvent, RoomForRun)
    \/ ResultSteps

SpecLang == Construct(AllLocales, {UsualMarkup}) /\ [][NextLang]_vars

\* SpecStub: the transcription stub on every filename of up to MaxNameLen characters
Alphabet == {"a", "b", "e", "g", "h", "i", "k", "l", "m", "n", "r", "t", "u", "H", "I"}
Filenames == UNION {[1..n -> Alphabet] : n \in 1..MaxNameLen}

\* the state in which file run 1, started on an accepted audio file, has decoded it
\* and waits for the stub's timer: after handleFileSelect, processAudioFile,
\* reader.onload and a successful decode, on a page that has done nothing else
InitStub ==
    /\ isSupported = TRUE
    /\ isRecording = FALSE
    /\ transcript = <<>>
    /\ lastTranslation = <<>>
    /\ languageSelect = "hi-IN"
    /\ translationLanguage = "en"
    /\ speakButtonText = <<"Speak ", TargetLangName("en")>>
    /\ statusText = messages.PROCESSING_AUDIO
    /\ statusRecording = FALSE
    /\ startDisabled = UsualMarkup.start
    /\ stopDisabled = UsualMarkup.stop
    /\ processDisabled = FALSE
    /\ speakDisabled = UsualMarkup.speak
    /\ transcriptText = <<>>
    /\ recognitionLang = ""
    /\ recActive = FALSE
    /\ recognizerCalls = <<>>
    /\ synthQueue = <<>>
    /\ handlers = <<>>
    /\ \E name \in Filenames :
         LET file == [exists |-> TRUE, name |-> name, type |-> <<"audio/", "mpeg">>] IN
         /\ uploadedAudio = file
         /\ fileInfo = <<"Selected: ">> \o name
         /\ fileRuns = <<[NewFileRun(file) EXCEPT !.pc = "timer", !.filename = name]>>

NextStub == TimerFires(1)

SpecStub == InitStub /\ [][NextStub]_vars

\* SpecUpload: file selections that arrive while a file run is in flight
OtherAudioFile == [exists |-> TRUE, name |-> <<"t", "e">>, type |-> <<"audio/", "wav">>]

NextUpload ==
    \/ \E file \in {AudioFile, OtherAudioFile, TextFile, NoFile} : HandleFileSelect(file)
    \/ ProcessAudioFile(Len(fileRuns) < MaxFileRuns)
    \/ FileSteps

SpecUpload == Construct({"hi-IN"}, {UsualMarkup}) /\ [][NextUpload]_vars

\* SpecLive: result events with several finalized fragments and file runs, on a
\* page whose event loop runs every continuation that is ready, whose translation
\* requests all settle, and whose file reads, decodes and timers all complete
RoomForLiveRun == Len(handlers) + Len(fileRuns) < MaxLiveRuns

NextLive ==
    \/ StartRecording
    \/ \E results \in {MixedEvent, TwoFinalsEvent} : OnResult(results, RoomForLiveRun)
    \/ ResultSteps
    \/ HandleFileSelect(AudioFile)
    \/ ProcessAudioFile(RoomForLiveRun)
    \/ FileSteps

SpecLive ==
    /\ Construct({"hi-IN"}, {UsualMarkup})
    /\ [][NextLive]_vars
    /\ WF_vars(ResultSteps)
    /\ WF_vars(FileSteps)

\* ------------------------------------------------------------------ claims
\* the block of a finished handler sits in the transcript, ending at its endPos
BlockInPlace(h) ==
    /\ h.endPos <= Len(transcript)
    /\ Len(h.block) <= h.endPos
    /\ SubSeq(transcript, h.endPos - Len(h.block) + 1, h.endPos) = h.block

\* handler b was delivered after handler a had finished, and both appended a block
HandledInSequence(a, b) ==
    /\ a \in 1..Len(handlers) /\ b \in 1..Len(handlers)
    /\ handlers[a].pc = "done" /\ handlers[b].pc = "done"
    /\ a \in handlers[b].after
    /\ handlers[a].block # <<>> /\ handlers[b].block # <<>>

\* C1: when two result events with a finalized fragment and a non-empty
\* translation are handled one after the other, the transcript holds both blocks,
\* whole, the first one's before the second one's, after all it held before.
C1_SequentialBlocksKept ==
    \A a, b \in 1..Len(handlers) :
        HandledInSequence(a, b) =>
            /\ BlockInPlace(handlers[a])
            /\ BlockInPlace(handlers[b])
            /\ handlers[a].endPos = handlers[b].endPos - Len(handlers[b].block)
               \/ \E c \in 1..Len(handlers) :
                    /\ c \notin {a, b} /\ handlers[c].pc = "done"
                    /\ handlers[a].endPos < handlers[c].endPos
                    /\ handlers[c].endPos < handlers[b].endPos

C1_Witness ==
    /\ HandledInSequence(1, 2)
    /\ handlers[1].block # handlers[2].block
    /\ transcript = handlers[1].block \o handlers[2].block

\* the session state translateToEnglish must leave alone
SessionVars ==
    <<isRecording, transcript, uploadedAudio, lastTranslation, statusText,
      statusRecording, startDisabled, stopDisabled, processDisabled, speakDisabled,
      fileInfo, transcriptText, languageSelect, translationLanguage, recognitionLang,
      speakButtonText, synthQueue>>

\* what C2 says translateToEnglish(text) returns on `response`
C2_Expected(text, response) ==
    CASE response.kind \in {"network", "parse"} -> text
      [] response.kind = "json" /\ response.responseStatus # 200 -> text
      [] response.kind = "json" /\ response.responseStatus = 200 -> response.translatedText

\* C2: translateToEnglish returns the service's translatedText exactly when the
\* response parses with responseStatus 200 and the input text otherwise; the call
\* issued one request and issues no other; it changes no session state.
C2_TranslateFallback ==
    [][\A k \in 1..Len(handlers) :
          (handlers[k].pc = "await" /\ handlers'[k].pc = "returned") =>
              /\ handlers[k].request # NoRequest
              /\ handlers'[k].response \in Responses(handlers[k].request)
              /\ handlers'[k].ret =
                    C2_Expected(handlers[k].request.text, handlers'[k].response)
              /\ handlers'[k].request = NoRequest
              /\ \A j \in 1..Len(handlers) : j # k => handlers'[j] = handlers[j]
              /\ Len(handlers') = Len(handlers)
              /\ UNCHANGED SessionVars]_vars

C2_Witness ==
    \E k \in 1..Len(handlers) :
        /\ handlers[k].pc = "returned"
        /\ handlers[k].response.kind = "json"
        /\ handlers[k].response.responseStatus = 403
        /\ handlers[k].ret = <<"a">>

\* what C3 says the source code of a request is, for a selection
C3_Code(selection) ==
    CASE selection = "en-US" -> <<"e", "n">>
      [] selection = "hi-IN" -> <<"h", "i">>
      [] selection = "te-IN" -> <<"t", "e">>
      [] selection = "ta-IN" -> <<"t", "a">>
      [] selection = "kn-IN" -> <<"k", "n">>
      [] selection = "ml-IN" -> <<"m", "l">>
      [] selection = "mr-IN" -> <<"m", "r">>
      [] selection = "bn-IN" -> <<"b", "n">>
      [] selection = "gu-IN" -> <<"g", "u">>
      [] OTHER -> <<"auto">>

\* C3: a request carries, as source, the two-letter code of the source selection
\* at the moment it is issued, "auto" for an unmapped selection, and as target the
\* target selection of that moment.
C3_LangPair ==
    [][\A k \in 1..Len(handlers') :
          (/\ handlers'[k].request # NoRequest
           /\ (k > Len(handlers) \/ handlers[k].request # handlers'[k].request)) =>
              /\ handlers'[k].request.source = C3_Code(languageSelect)
              /\ handlers'[k].request.target = translationLanguage]_vars

C3_Witness ==
    \E k \in 1..Len(handlers) :
        /\ handlers[k].request.source = <<"auto">>
        /\ handlers[k].request.target = "hi"
        /\ languageSelect = "gu-IN"
        /\ translationLanguage = "en"

\* C4: after a file-selection event the process action is enabled, and the upload
\* state holds the file, exactly when a file was selected and its type is an audio
\* type; otherwise the upload state is unset, whatever it held; and with no
\* upload a process request starts nothing.
C4_FileSelection ==
    [][/\ \A file \in Files :
            HandleFileSelect(file) =>
                LET accepted == file.exists /\ Len(file.type) > 0
                                            /\ file.type[1] = "audio/" IN
                /\ processDisabled' = ~accepted
                /\ uploadedAudio' = IF accepted THEN file ELSE NoFile
                /\ (uploadedAudio' # NoFile) = accepted
       /\ uploadedAudio = NoFile =>
            /\ Len(fileRuns') = Len(fileRuns)
            /\ statusText' = messages.PROCESSING_AUDIO
                  => statusText = messages.PROCESSING_AUDIO]_vars

\* a non-audio file was selected after an audio file had been accepted and processed
C4_Witness ==
    /\ uploadedAudio = NoFile
    /\ processDisabled
    /\ fileInfo = <<"Please select an audio file">>
    /\ Len(fileRuns) > 0

\* C5: while the synthesizer is speaking a synthesis request changes nothing: no
\* utterance is handed over or queued, the active one is not interrupted, and
\* session state is as it was.
C5_SpeakDropped ==
    [][Speaking =>
          /\ SpeakTranslation => UNCHANGED vars
          /\ synthQueue' = synthQueue \/ synthQueue' = Tail(synthQueue)
          /\ Len(synthQueue) = 1]_vars

\* the synthesizer is speaking and a request would now hand it another utterance
C5_Witness ==
    /\ Speaking
    /\ lastTranslation # <<>>
    /\ synthQueue[1] # Utterance

C7_Message(error) ==
    CASE error = "network" -> messages.NETWORK_ERROR
      [] error = "not-allowed" -> messages.PERMISSION_ERROR
      [] OTHER -> messages.ERROR_START

\* C7: once the error callback has returned, the status field shows the message
\* of the error code, the recording flag is false and the recognizer's stop was
\* called.
C7_ErrorShownAndStopped ==
    [][\A error \in ErrorCodes :
          OnError(error) =>
              /\ statusText' = C7_Message(error)
              /\ isRecording' = FALSE
              /\ Len(recognizerCalls') = 1
              /\ recognizerCalls'[1].method = "stop"]_vars

\* C8: without the recognition capability a start request shows the
\* unsupported-browser message, and in every state the recording flag is false
\* and the recognizer has received no call.
C8_UnsupportedStaysIdle ==
    [][~isSupported =>
          /\ StartRecording => statusText' = messages.BROWSER_ERROR
          /\ isRecording' = FALSE
          /\ recActive' = FALSE
          /\ recognizerCalls' = <<>>]_vars

\* a start request was made after a file run had changed the status line
C8_Witness ==
    /\ ~isSupported
    /\ statusText = messages.BROWSER_ERROR
    /\ Len(fileRuns) > 0
    /\ ~isRecording

\* the latest request called the recognizer's `method`, and the call threw
Threw(method) ==
    /\ Len(recognizerCalls') = 1
    /\ recognizerCalls'[1] = RecognizerCall(method, TRUE)

RECURSIVE C10_FirstCode(_, _)
C10_FirstCode(codes, name) ==
    IF codes = <<>> THEN <<>>
    ELSE IF Includes(name, Head(codes)) THEN Head(codes)
    ELSE C10_FirstCode(Tail(codes), name)

C10_Codes ==
    << <<"e", "n">>, <<"h", "i">>, <<"t", "e">>, <<"t", "a">>, <<"k", "n">>,
       <<"m", "l">>, <<"m", "r">>, <<"b", "n">>, <<"g", "u">> >>

C10_Lower(name) ==
    [k \in 1..Len(name) |-> CASE name[k] = "H" -> "h" [] name[k] = "I" -> "i"
                              [] OTHER -> name[k]]

\* what C10 says the stub returns for a filename
C10_Expected(name) ==
    LET code == C10_FirstCode(C10_Codes, C10_Lower(name)) IN
    IF code = <<>> \/ code = <<"e", "n">>
    THEN <<"sample:", "default">>
    ELSE <<"sample:">> \o code

\* C10: the stub returns the sample of the first code, in mapping order, that
\* occurs in the lower-cased filename, and the English fallback when none occurs
\* or the code is 'en'.
C10_StubSample ==
    \A k \in 1..Len(fileRuns) :
        fileRuns[k].pc = "await" =>
            fileRuns[k].transcript = C10_Expected(fileRuns[k].filename)

\* a filename that holds 'te' and, before it in mapping order, 'hi' in capitals
C10_Witness ==
    /\ Len(fileRuns) = 1
    /\ fileRuns[1].pc = "await"
    /\ fileRuns[1].filename = <<"t", "e", "H", "I">>
    /\ fileRuns[1].transcript = <<"sample:", "h", "i">>

\* handler b was delivered while handler a, delivered before it, had not finished,
\* and both appended a block
Overlapped(a, b) ==
    /\ a \in 1..Len(handlers) /\ b \in 1..Len(handlers)
    /\ a < b
    /\ handlers[a].pc = "done" /\ handlers[b].pc = "done"
    /\ a \notin handlers[b].after
    /\ handlers[a].block # <<>> /\ handlers[b].block # <<>>

\* C11: overlapping result handlers append in the order their translations
\* resolve, which can be the reverse of the order of delivery: whichever of two
\* overlapping handlers finishes first, both blocks are in the transcript, whole
\* and apart; the witness is the execution in which the later event's block comes
\* first.
C11_OverlappedBlocksKept ==
    \A a, b \in 1..Len(handlers) :
        Overlapped(a, b) =>
            /\ BlockInPlace(handlers[a])
            /\ BlockInPlace(handlers[b])
            /\ \/ handlers[a].endPos <= handlers[b].endPos - Len(handlers[b].block)
               \/ handlers[b].endPos <= handlers[a].endPos - Len(handlers[a].block)

\* event 1 was delivered before event 2, and the block of event 2 lies before the
\* block of event 1
C11_Witness ==
    /\ Overlapped(1, 2)
    /\ handlers[1].block # handlers[2].block
    /\ handlers[2].endPos < handlers[1].endPos
    /\ transcript = handlers[2].block \o handlers[1].block

\* the text after " Translation: " in a block
BlockTranslation(block) ==
    LET at == CHOOSE n \in 1..Len(block) : block[n] = " Translation: "
    IN SubSeq(block, at + 1, Len(block) - 1)

\* C12: stopping does not cancel in-flight work. No step, a stop request or a
\* recognizer error included, takes a handler away from its await or changes its
\* request; and when the handler returns with a translation, whatever the
\* recording flag, its block is appended to the transcript, its translation
\* becomes lastTranslation and the recording flag stays as it was.
C12_NoCancellation ==
    [][\A k \in 1..Len(handlers) :
          /\ Len(handlers') >= Len(handlers)
          /\ handlers[k].pc = "await" =>
                \/ handlers'[k] = handlers[k]
                \/ handlers'[k].pc = "returned"
          /\ (handlers[k].pc = "returned" /\ handlers'[k].pc = "done"
                /\ handlers[k].finalTranscript \o handlers[k].ret # <<>>) =>
                /\ handlers'[k].block # <<>>
                /\ transcript' = transcript \o handlers'[k].block
                /\ BlockTranslation(handlers'[k].block)
                      = handlers[k].finalTranscript \o handlers[k].ret
                /\ lastTranslation' = BlockTranslation(handlers'[k].block)
                /\ isRecording' = isRecording]_vars

\* a handler that awaited its translation when the recording was stopped has
\* since returned: its block is in the transcript, its translation is
\* lastTranslation and the recording flag is false
C12_Witness ==
    \E k \in 1..Len(handlers) :
        /\ handlers[k].pc = "done"
        /\ ~handlers[k].recording
        /\ ~isRecording
        /\ recognizerCalls = <<RecognizerCall("stop", FALSE)>>
        /\ handlers[k].block # <<>>
        /\ transcript = handlers[k].block
        /\ lastTranslation = BlockTranslation(handlers[k].block)

\* the texts of the non-final fragments of a result event, in index order
RECURSIVE C13_Interim(_)
C13_Interim(results) ==
    IF results = <<>> THEN <<>>
    ELSE (IF Head(results).isFinal THEN <<>> ELSE Head(results).transcript)
            \o C13_Interim(Tail(results))

C13_HasFinal(results) == \E n \in 1..Len(results) : results[n].isFinal

\* the Speaking line C13 allows for an update with this interim text
C13_Line(interim) == IF interim # <<>> THEN <<"Speaking: ">> \o interim ELSE <<>>

\* the result events a recording delivers
C13_Events == {InterimEvent, FinalEvent, MixedEvent, TwoFinalsEvent}

\* C13: after every transcript update the display is the accumulated transcript
\* followed by at most one Speaking line, which holds the interim text of that
\* update and nothing of earlier ones; and an update without finalized text
\* leaves the accumulated transcript as it was.
C13_InterimTransient ==
    [][/\ \A results \in C13_Events :
            (OnResult(results, TRUE) /\ handlers' = handlers) =>
                /\ ~C13_HasFinal(results)
                /\ transcript' = transcript
                /\ transcriptText' = transcript' \o C13_Line(C13_Interim(results))
       /\ \A k \in 1..Len(handlers) :
            (handlers[k].pc = "returned" /\ handlers'[k].pc = "done") =>
                transcriptText' = transcript' \o C13_Line(C13_Interim(handlers[k].results))
       /\ \A k \in 1..Len(fileRuns) :
            (fileRuns[k].pc = "returned" /\ fileRuns'[k].pc = "done") =>
                transcriptText' = transcript' \o C13_Line(fileRuns[k].transcript)
       /\ (transcriptText' # transcriptText \/ transcript' # transcript) =>
            \/ \E results \in C13_Events : OnResult(results, TRUE) /\ handlers' = handlers
            \/ \E k \in 1..Len(handlers) : handlers'[k].pc = "done" /\ handlers[k].pc # "done"
            \/ \E k \in 1..Len(fileRuns) : fileRuns'[k].pc = "done" /\ fileRuns[k].pc # "done"]_vars

\* handler a's update showed a Speaking line with its interim text; handler b's
\* update, applied after it and without interim text, left no Speaking line
C13_Witness ==
    \E a, b \in 1..Len(handlers) :
        /\ handlers[a].pc = "done" /\ handlers[b].pc = "done"
        /\ handlers[a].block # <<>> /\ handlers[b].block # <<>>
        /\ handlers[a].block[2] = "b"
        /\ handlers[b].block[2] = "\n"
        /\ handlers[a].endPos < handlers[b].endPos
        /\ transcriptText = transcript

\* no fragment with an index strictly between lo and hi is final
C14_NoFinalBetween(results, lo, hi) ==
    \A n \in 1..Len(results) : (lo < n /\ n < hi) => ~results[n].isFinal

\* the block C14 expects of a run that returns with `final` and `interim`; none
\* when `orNone` and the text is empty
C14_Appended(final, interim, orNone) ==
    IF orNone /\ final = <<>>
    THEN transcript' = transcript
    ELSE transcript' = transcript \o
            TranscriptBlock(final, interim, TargetLangName(translationLanguage))

\* the steps of a handler and of a file run, as C14 has them: each finalized
\* fragment is translated once, in index order, the translations are concatenated
\* in that order, and the run appends one block when it returns; a run that has
\* returned appends nothing more, and nothing else appends
C14_Steps(orNone) ==
    /\ \A k \in 1..Len(handlers') :
          LET new == handlers'[k] IN
          IF k > Len(handlers)
          THEN /\ new.pc = "await"
               /\ new.finalTranscript = <<>>
               /\ new.results[new.i].isFinal
               /\ new.request.text = new.results[new.i].transcript
               /\ C14_NoFinalBetween(new.results, 0, new.i)
               /\ transcript' = transcript
          ELSE LET old == handlers[k] IN
               /\ old.pc = "done" => new = old
               /\ (old.pc = "returned" /\ new.pc = "await") =>
                     /\ new.finalTranscript = old.finalTranscript \o old.ret
                     /\ new.i > old.i
                     /\ new.results[new.i].isFinal
                     /\ new.request.text = new.results[new.i].transcript
                     /\ C14_NoFinalBetween(old.results, old.i, new.i)
                     /\ transcript' = transcript
               /\ (old.pc = "returned" /\ new.pc = "done") =>
                     /\ C14_NoFinalBetween(old.results, old.i, Len(old.results) + 1)
                     /\ C14_Appended(old.finalTranscript \o old.ret,
                                     C13_Interim(old.results), orNone)
    /\ \A k \in 1..Len(fileRuns) :
          /\ fileRuns[k].pc = "done" => fileRuns'[k] = fileRuns[k]
          /\ (fileRuns[k].pc = "returned" /\ fileRuns'[k].pc = "done") =>
                /\ fileRuns'[k].outcome = "processed"
                /\ statusText' = messages.AUDIO_PROCESSED
                /\ C14_Appended(fileRuns[k].ret, fileRuns[k].transcript, orNone)
          /\ fileRuns'[k].outcome = "processed" => fileRuns[k].pc \in {"returned", "done"}
    /\ transcript' # transcript =>
          \/ \E k \in 1..Len(handlers) :
                handlers[k].pc = "returned" /\ handlers'[k].pc = "done"
          \/ \E k \in 1..Len(fileRuns) :
                fileRuns[k].pc = "returned" /\ fileRuns'[k].pc = "done"

\* C14 as stated: every result event with a finalized fragment, and every file
\* run that ends with the processed status, appends exactly one block, which
\* holds the translations of the finalized fragments in index order.
C14_AlwaysOneBlock == [][C14_Steps(FALSE)]_vars

\* C14 as amended: on a page where every request settles and every ready
\* continuation runs, every result event with a finalized fragment and every file
\* run eventually returns; when it returns it appends exactly one block, holding
\* the translations of the finalized fragments concatenated in index order, if
\* that text is not empty, and no block if it is empty.
C14_EventuallyOneBlock ==
    /\ [][C14_Steps(TRUE)]_vars
    /\ \A k \in 1..MaxLiveRuns :
          /\ (Len(handlers) >= k) ~> (Len(handlers) >= k /\ handlers[k].pc = "done")
          /\ (Len(fileRuns) >= k) ~> (Len(fileRuns) >= k /\ fileRuns[k].pc = "done")

\* an event of two finalized fragments has returned: the first request failed, the
\* second was translated, and the one block holds both texts in fragment order
C14_Witness ==
    \E k \in 1..Len(handlers) :
        /\ handlers[k].pc = "done"
        /\ transcript = TranscriptBlock(<<"a", translationLanguage, "b">>, <<>>,
                                        TargetLangName(translationLanguage))
        /\ handlers[k].block = transcript

\* the translation text of the last block of a non-empty transcript: what stands
\* between the last " Translation: " and the closing blank line
C15_LastBlockTranslation(text) ==
    LET marks == {n \in 1..Len(text) : text[n] = " Translation: "}
        at == CHOOSE n \in marks : \A m \in marks : m <= n
    IN SubSeq(text, at + 1, Len(text) - 1)

C15_LastIsLastBlock ==
    /\ (lastTranslation # <<>>) <=> (transcript # <<>>)
    /\ transcript # <<>> =>
          /\ transcript[Len(transcript)] = "\n\n"
          /\ \E n \in 1..Len(transcript) : transcript[n] = " Translation: "
          /\ lastTranslation = C15_LastBlockTranslation(transcript)

C16_Agree ==
    /\ isRecording <=> (startDisabled /\ ~stopDisabled)
    /\ isRecording <=> statusRecording

\* this step is a start or stop request whose recognizer call returned normally
C16_CallSucceeded ==
    /\ StartRecording \/ StopRecording
    /\ Len(recognizerCalls') = 1
    /\ ~recognizerCalls'[1].threw

\* C16: with the recognition capability, a start or stop request whose
\* recognizer call succeeds leaves the recording flag true exactly when the start
\* button is disabled and the stop button enabled, and exactly when the status
\* element carries the recording marker; and every later step (start and stop
\* requests, failing or not, and recognizer errors) keeps it so.
C16_FlagMatchesButtons ==
    [][isSupported =>
          /\ C16_CallSucceeded => C16_Agree'
          /\ C16_Agree => C16_Agree']_vars

\* during a recording a second start request failed: the flag, the buttons and
\* the marker still say recording
C16_Witness ==
    /\ isSupported
    /\ recognizerCalls = <<RecognizerCall("start", TRUE)>>
    /\ isRecording /\ startDisabled /\ ~stopDisabled /\ statusRecording
    /\ statusText = messages.ERROR_START

\* the language name a block is labelled with: what stands before " Translation: "
C17_Label(block) ==
    LET at == CHOOSE n \in 1..Len(block) : block[n] = " Translation: "
    IN block[at - 1]

\* C17: a block is labelled with the name of the target language that was sent
\* in the request that produced its text: when the text of a block is the
\* service's translation into a target, the label is that target's name, also
\* when the target selector changed while the request was in flight.
C17_LabelIsTargetSent ==
    \A k \in 1..Len(handlers) :
        (handlers[k].pc = "done" /\ handlers[k].block # <<>>) =>
            \A target \in TargetLanguages :
                BlockTranslation(handlers[k].block)[1] = target =>
                    C17_Label(handlers[k].block) = TargetLangName(target)

\* C18: a file run transcribes the file that was the accepted upload when the
\* process action was requested: the filename it hands to the transcription stub
\* is the name of that file, whatever is selected while the run is in flight.
C18_RunKeepsItsFile ==
    \A k \in 1..Len(fileRuns) :
        fileRuns[k].pc \in {"timer", "await", "returned"} =>
            fileRuns[k].filename = fileRuns[k].file.name

====
